---------------------------- MODULE Spec2Model ----------------------------
(***************************************************************************)
(* Model of the spell-checking engine: the Dictionary (exact set,          *)
(* frequency map, trie, phonetic buckets), the SuggestionEngine that reads *)
(* it, and the SpellChecker facade over both.                              *)
(*                                                                         *)
(* Spec explores the Dictionary and the engine under short runs of calls   *)
(* with small words and files; SpecChecker explores the facade over        *)
(* dictionaries loaded from files; SpecDistance applies the engine's edit  *)
(* distances to every pair of short words; SpecText runs the facade's      *)
(* checks over short texts.                                                *)
(*                                                                         *)
(* Characters are their ASCII codes and a std::string is a sequence of     *)
(* codes: "ab" is <<97, 98>>, "AB" is <<65, 66>>, "a1" is <<97, 49>>.      *)
(* Mutating methods are actions; const methods are operators over the      *)
(* state.  Where C++ leaves an order unspecified (iteration of an          *)
(* unordered container, std::sort on equal keys) the operator yields the   *)
(* set of every result the build can produce.                              *)
(***************************************************************************)
EXTENDS Integers, Sequences, FiniteSets, TLC

VARIABLES
    word_set_,          \* Dictionary::word_set_         (set of strings)
    word_frequencies_,  \* Dictionary::word_frequencies_ (string -> uint32)
    phonetic_map_,      \* Dictionary::phonetic_map_     (code -> vector<string>)
    trie_root_,         \* Dictionary::trie_root_        (path -> TrieNode)
    word_count_,        \* Dictionary::word_count_
    memory_usage_,      \* Dictionary::memory_usage_
    max_suggestions_,   \* SuggestionEngine::max_suggestions_
    spell_checker_max_suggestions_,  \* SpellChecker::max_suggestions_
    spell_checker_case_sensitive_,   \* SpellChecker::case_sensitive_
    last,               \* the last call recorded (see Call)
    nops                \* number of calls made so far

vars == <<word_set_, word_frequencies_, phonetic_map_, trie_root_,
          word_count_, memory_usage_, max_suggestions_,
          spell_checker_max_suggestions_, spell_checker_case_sensitive_,
          last, nops>>

---------------------------------------------------------------------------
\* Bounds of the model.

\* Longest run of mutating calls explored.
MaxOps == 3

\* add_word is called with frequencies 0..MaxFreq.
MaxFreq == 2

\* setMaxSuggestions is called with 0..MaxSugg.
MaxSugg == 2

\* Strings handed to add_word / remove_word: "ab", "AB", "ba", "abb", "a1".
InputWords ==
    { <<97, 98>>, <<65, 66>>, <<98, 97>>, <<97, 98, 98>>, <<97, 49>> }

\* Strings handed to the const methods: the inputs, "b", "a", "Ab", "abab".
QueryWords ==
    InputWords \cup { <<98>>, <<97>>, <<65, 98>>, <<97, 98, 97, 98>> }

\* Lines of dictionary files: "ab:2", " Ab\r", "ba:0", "abb:x", "", ":1".
FileLines ==
    { <<97, 98, 58, 50>>, <<32, 65, 98, 13>>, <<98, 97, 58, 48>>,
      <<97, 98, 98, 58, 120>>, <<>>, <<58, 49>> }

\* Dictionary files: one that cannot be opened, and every file of at most
\* two of the lines above.
Files ==
    { [opens |-> FALSE, lines |-> <<>>] }
    \cup { [opens |-> TRUE, lines |-> <<>>] }
    \cup { [opens |-> TRUE, lines |-> <<l>>] : l \in FileLines }
    \cup { [opens |-> TRUE, lines |-> <<l1, l2>>] : l1 \in FileLines, l2 \in FileLines }

---------------------------------------------------------------------------
\* Characters and strings.

\* ::tolower on an ASCII code.
ToLowerChar(c) == IF c >= 65 /\ c <= 90 THEN c + 32 ELSE c

\* std::toupper on an ASCII code.
ToUpperChar(c) == IF c >= 97 /\ c <= 122 THEN c - 32 ELSE c

\* std::transform(begin, end, begin, ::tolower)
ToLower(s) == [i \in 1..Len(s) |-> ToLowerChar(s[i])]

\* ::isspace in the "C" locale: \t \n \v \f \r and space.
IsSpace(c) == c \in {9, 10, 11, 12, 13, 32}

\* std::isdigit
IsDigit(c) == c >= 48 /\ c <= 57

Range(s) == { s[i] : i \in 1..Len(s) }

---------------------------------------------------------------------------
\* Dictionary: the phonetic code.

\* The switch of generatePhoneticCode: the digit of a lowercase character,
\* or 0 for the default branch (continue).
PhoneticDigit(c) ==
    CASE c \in {98, 102, 112, 118} -> 49                     \* b f p v     -> '1'
      [] c \in {99, 103, 106, 107, 113, 115, 120, 122} -> 50 \* c g j k q s x z -> '2'
      [] c \in {100, 116} -> 51                              \* d t         -> '3'
      [] c = 108 -> 52                                       \* l           -> '4'
      [] c \in {109, 110} -> 53                              \* m n         -> '5'
      [] c = 114 -> 54                                       \* r           -> '6'
      [] OTHER -> 0

\* A variant of the loop in which a skipped character resets the collapsing
\* of duplicates, as in canonical Soundex.
RECURSIVE PhoneticLoopResetting(_, _, _)
PhoneticLoopResetting(word, i, code) ==
    IF i > Len(word) \/ Len(code) >= 4 THEN code
    ELSE LET digit == PhoneticDigit(ToLowerChar(word[i]))
             after_skipped == i > 2 /\ PhoneticDigit(ToLowerChar(word[i - 1])) = 0
         IN IF digit = 0 THEN PhoneticLoopResetting(word, i + 1, code)
            ELSE IF code = <<>> \/ code[Len(code)] # digit \/ after_skipped
                 THEN PhoneticLoopResetting(word, i + 1, Append(code, digit))
                 ELSE PhoneticLoopResetting(word, i + 1, code)

\* The for loop of generatePhoneticCode, from index i (1-based) on.
RECURSIVE PhoneticLoop(_, _, _)
PhoneticLoop(word, i, code) ==
    IF i > Len(word) \/ Len(code) >= 4 THEN code
    ELSE LET digit == PhoneticDigit(ToLowerChar(word[i]))
         IN IF digit = 0 THEN PhoneticLoop(word, i + 1, code)
            ELSE IF code = <<>> \/ code[Len(code)] # digit
                 THEN PhoneticLoop(word, i + 1, Append(code, digit))
                 ELSE PhoneticLoop(word, i + 1, code)

\* The padding loop: while (code.length() < 4) code += '0'.
RECURSIVE PadZeros(_)
PadZeros(code) == IF Len(code) < 4 THEN PadZeros(Append(code, 48)) ELSE code

generatePhoneticCode(word) ==
    IF word = <<>> THEN <<>>
    ELSE PadZeros(PhoneticLoop(word, 2, <<ToUpperChar(word[1])>>))

---------------------------------------------------------------------------
\* Dictionary: the trie.  A trie is a function from the paths that have a
\* node to the node's fields; the root is the empty path.

TrieNode == [is_word |-> FALSE, frequency |-> 0]

EmptyTrie == [p \in {<<>>} |-> TrieNode]

insertIntoTrie(trie, word, frequency) ==
    LET paths == { SubSeq(word, 1, k) : k \in 0..Len(word) }
    IN [p \in DOMAIN trie \cup paths |->
          IF p = word THEN [is_word |-> TRUE, frequency |-> frequency]
          ELSE IF p \in DOMAIN trie THEN trie[p]
          ELSE TrieNode]

\* The children of the node at path p, as paths.
Children(trie, p) ==
    { q \in DOMAIN trie : Len(q) = Len(p) + 1 /\ SubSeq(q, 1, Len(p)) = p }

---------------------------------------------------------------------------
\* Dictionary: the mutators, as functions of a Dictionary value d.

EmptyDictionary ==
    [ word_set_ |-> {},
      word_frequencies_ |-> [w \in {} |-> 0],
      phonetic_map_ |-> [c \in {} |-> <<>>],
      trie_root_ |-> EmptyTrie,
      word_count_ |-> 0,
      memory_usage_ |-> 0 ]

\* phonetic_map_[code].push_back(word)
BucketPushBack(pm, code, word) ==
    [c \in DOMAIN pm \cup {code} |->
        IF c = code
        THEN Append(IF code \in DOMAIN pm THEN pm[code] ELSE <<>>, word)
        ELSE pm[c]]

\* word_frequencies_[word] = frequency
SetFrequency(wf, word, frequency) ==
    [w \in DOMAIN wf \cup {word} |-> IF w = word THEN frequency ELSE wf[w]]

\* A variant of Dictionary::addWord that counts every call as a new word.
DictAddWordCountsAll(d, word, frequency) ==
    IF word = <<>> THEN d
    ELSE LET normalized_word == ToLower(word)
         IN [ d EXCEPT
                !.word_set_ = @ \cup {normalized_word},
                !.word_frequencies_ = SetFrequency(@, normalized_word, frequency),
                !.trie_root_ = insertIntoTrie(@, normalized_word, frequency),
                !.phonetic_map_ =
                    BucketPushBack(@, generatePhoneticCode(normalized_word), normalized_word),
                !.word_count_ = @ + 1 ]

\* A variant of Dictionary::addWord that adds the frequency to the stored one.
DictAddWordAdditive(d, word, frequency) ==
    IF word = <<>> THEN d
    ELSE LET normalized_word == ToLower(word)
             is_new_word == normalized_word \notin d.word_set_
             old == IF normalized_word \in DOMAIN d.word_frequencies_
                    THEN d.word_frequencies_[normalized_word] ELSE 0
         IN [ d EXCEPT
                !.word_set_ = @ \cup {normalized_word},
                !.word_frequencies_ = SetFrequency(@, normalized_word, old + frequency),
                !.trie_root_ = insertIntoTrie(@, normalized_word, old + frequency),
                !.phonetic_map_ =
                    BucketPushBack(@, generatePhoneticCode(normalized_word), normalized_word),
                !.word_count_ = IF is_new_word THEN @ + 1 ELSE @ ]

\* Dictionary::addWord
DictAddWord(d, word, frequency) ==
    IF word = <<>> THEN d
    ELSE LET normalized_word == ToLower(word)
             is_new_word == normalized_word \notin d.word_set_
         IN [ d EXCEPT
                !.word_set_ = @ \cup {normalized_word},
                !.word_frequencies_ = SetFrequency(@, normalized_word, frequency),
                !.trie_root_ = insertIntoTrie(@, normalized_word, frequency),
                !.phonetic_map_ =
                    BucketPushBack(@, generatePhoneticCode(normalized_word), normalized_word),
                !.word_count_ = IF is_new_word THEN @ + 1 ELSE @ ]

\* std::remove(begin, end, word) followed by erase: every occurrence goes.
RECURSIVE EraseAll(_, _)
EraseAll(s, word) ==
    IF s = <<>> THEN <<>>
    ELSE IF Head(s) = word THEN EraseAll(Tail(s), word)
    ELSE <<Head(s)>> \o EraseAll(Tail(s), word)

\* The phonetic part of removeWord: operator[] makes the bucket if it is
\* missing, the word is erased from it, and an empty bucket is erased.
BucketErase(pm, code, word) ==
    LET bucket == IF code \in DOMAIN pm THEN pm[code] ELSE <<>>
        phonetic_words == EraseAll(bucket, word)
    IN IF phonetic_words = <<>>
       THEN [c \in DOMAIN pm \ {code} |-> pm[c]]
       ELSE [c \in DOMAIN pm \cup {code} |-> IF c = code THEN phonetic_words ELSE pm[c]]

\* A variant of Dictionary::removeWord that takes the reference to the
\* phonetic bucket (operator[] makes a missing bucket) before it looks the
\* word up.
DictRemoveWordTouchesBucket(d, word) ==
    LET normalized_word == ToLower(word)
        code == generatePhoneticCode(normalized_word)
        pm == d.phonetic_map_
        made == [c \in DOMAIN pm \cup {code} |-> IF c \in DOMAIN pm THEN pm[c] ELSE <<>>]
    IN IF normalized_word \notin d.word_set_
       THEN [dict |-> [d EXCEPT !.phonetic_map_ = made], ret |-> FALSE]
       ELSE [dict |->
               [ d EXCEPT
                   !.word_set_ = @ \ {normalized_word},
                   !.word_frequencies_ =
                       [w \in DOMAIN @ \ {normalized_word} |-> @[w]],
                   !.phonetic_map_ =
                       BucketErase(@, code, normalized_word),
                   !.word_count_ = @ - 1 ],
             ret |-> TRUE]

\* Dictionary::removeWord: the dictionary after the call and the value returned.
DictRemoveWord(d, word) ==
    LET normalized_word == ToLower(word)
    IN IF normalized_word \notin d.word_set_
       THEN [dict |-> d, ret |-> FALSE]
       ELSE [dict |->
               [ d EXCEPT
                   !.word_set_ = @ \ {normalized_word},
                   !.word_frequencies_ =
                       [w \in DOMAIN @ \ {normalized_word} |-> @[w]],
                   !.phonetic_map_ =
                       BucketErase(@, generatePhoneticCode(normalized_word), normalized_word),
                   !.word_count_ = @ - 1 ],
             ret |-> TRUE]

\* Dictionary::clear
DictClear(d) == EmptyDictionary

---------------------------------------------------------------------------
\* Dictionary: memory accounting.  The sizeof values are those of an LP64
\* build with libstdc++.

SizeofDictionary == 192
SizeofString == 32
SizeofUint32 == 4

RECURSIVE SumOver(_, _)
\* The sum of f[x] over the finite set S.
SumOver(S, f) ==
    IF S = {} THEN 0
    ELSE LET x == CHOOSE y \in S : TRUE IN f[x] + SumOver(S \ {x}, f)

RECURSIVE SumSeqSizes(_)
\* The sum of word.size() + sizeof(std::string) over a vector of words.
SumSeqSizes(s) ==
    IF s = <<>> THEN 0 ELSE Len(Head(s)) + SizeofString + SumSeqSizes(Tail(s))

\* Dictionary::calculateMemoryUsage (the trie is not counted)
calculateMemoryUsage(d) ==
    [ d EXCEPT !.memory_usage_ =
        SizeofDictionary
        + SumOver(d.word_set_, [w \in d.word_set_ |-> Len(w) + SizeofString])
        + SumOver(DOMAIN d.word_frequencies_,
                  [w \in DOMAIN d.word_frequencies_ |-> Len(w) + SizeofString + SizeofUint32])
        + SumOver(DOMAIN d.phonetic_map_,
                  [c \in DOMAIN d.phonetic_map_ |->
                      Len(c) + SizeofString + SumSeqSizes(d.phonetic_map_[c])]) ]

---------------------------------------------------------------------------
\* Dictionary: reading a dictionary file.

NotSpace(c) == ~IsSpace(c)

\* line.find(':'): the 1-based index of the first ':' from index i on, or 0
\* (std::string::npos).
RECURSIVE FindColon(_, _)
FindColon(line, i) ==
    IF i > Len(line) THEN 0
    ELSE IF line[i] = 58 THEN i
    ELSE FindColon(line, i + 1)

\* The value of the decimal digits at the head of s, given the value so far.
RECURSIVE DigitsValue(_, _)
DigitsValue(s, acc) ==
    IF s = <<>> \/ ~IsDigit(Head(s)) THEN acc
    ELSE DigitsValue(Tail(s), 10 * acc + (Head(s) - 48))

\* std::stoul(s) followed by static_cast<uint32_t>, for an s without sign
\* and a value below 2^31 (the files of the model hold no other): the
\* leading digits are converted and what follows them is ignored; with no
\* leading digit std::invalid_argument is thrown.
Stoul(s) ==
    IF s = <<>> \/ ~IsDigit(Head(s))
    THEN [threw |-> TRUE, value |-> 0]
    ELSE [threw |-> FALSE, value |-> DigitsValue(s, 0)]

\* The body of the while loop of loadFromFile for the lines from index i on.
\* threw tells that std::stoul threw: the exception leaves loadFromFile (there
\* is no handler) with the lines before it already added.
RECURSIVE LoadLines(_, _, _)
LoadLines(d, lines, i) ==
    IF i > Len(lines) THEN [dict |-> d, threw |-> FALSE]
    ELSE LET line == SelectSeq(lines[i], NotSpace)
             colon_pos == FindColon(line, 1)
         IN IF line = <<>> THEN LoadLines(d, lines, i + 1)
            ELSE IF colon_pos # 0
            THEN LET word == SubSeq(line, 1, colon_pos - 1)
                     frequency == Stoul(SubSeq(line, colon_pos + 1, Len(line)))
                 IN IF frequency.threw THEN [dict |-> d, threw |-> TRUE]
                    ELSE LoadLines(DictAddWord(d, word, frequency.value), lines, i + 1)
            ELSE LoadLines(DictAddWord(d, line, 1), lines, i + 1)

\* A variant of Dictionary::loadFromFile that does not clear the dictionary
\* before it reads the lines.
DictLoadFromFileKeeps(d, file) ==
    IF ~file.opens THEN [dict |-> d, ret |-> "false"]
    ELSE LET r == LoadLines(d, file.lines, 1)
         IN IF r.threw THEN [dict |-> r.dict, ret |-> "exception"]
            ELSE [dict |-> calculateMemoryUsage(r.dict), ret |-> "true"]

\* A variant of Dictionary::loadFromFile that clears the dictionary before
\* it tests whether the file opened.
DictLoadFromFileClearsFirst(d, file) ==
    IF ~file.opens THEN [dict |-> DictClear(d), ret |-> "false"]
    ELSE LET r == LoadLines(DictClear(d), file.lines, 1)
         IN IF r.threw THEN [dict |-> r.dict, ret |-> "exception"]
            ELSE [dict |-> calculateMemoryUsage(r.dict), ret |-> "true"]

\* Dictionary::loadFromFile: the dictionary after the call and how the call
\* ended: "false" (the file did not open), "true", or "exception".
DictLoadFromFile(d, file) ==
    IF ~file.opens THEN [dict |-> d, ret |-> "false"]
    ELSE LET r == LoadLines(DictClear(d), file.lines, 1)
         IN IF r.threw THEN [dict |-> r.dict, ret |-> "exception"]
            ELSE [dict |-> calculateMemoryUsage(r.dict), ret |-> "true"]

---------------------------------------------------------------------------
\* Dictionary: writing a dictionary file.

\* operator<< of a uint32_t: its decimal digits.
RECURSIVE FormatDecimal(_)
FormatDecimal(n) ==
    IF n < 10 THEN <<48 + n>>
    ELSE Append(FormatDecimal(n \div 10), 48 + (n % 10))

\* The orders in which the elements of an unordered container can be visited.
RECURSIVE IterationOrders(_)
IterationOrders(S) ==
    IF S = {} THEN {<<>>}
    ELSE UNION { { <<x>> \o t : t \in IterationOrders(S \ {x}) } : x \in S }

\* Dictionary::saveToFile when the ofstream opens: the files it can leave,
\* one line word ":" frequency for every entry of word_frequencies_ of d.
DictSaveToFile(d) ==
    { [opens |-> TRUE,
       lines |-> [i \in 1..Len(order) |->
                    order[i] \o <<58>> \o FormatDecimal(d.word_frequencies_[order[i]])]]
      : order \in IterationOrders(DOMAIN d.word_frequencies_) }

---------------------------------------------------------------------------
\* The state as a Dictionary value, and the const methods of Dictionary.

Dict ==
    [ word_set_ |-> word_set_,
      word_frequencies_ |-> word_frequencies_,
      phonetic_map_ |-> phonetic_map_,
      trie_root_ |-> trie_root_,
      word_count_ |-> word_count_,
      memory_usage_ |-> memory_usage_ ]

\* A variant of Dictionary::containsWord that looks the word up as given.
containsWordAsGiven(word) == word \in word_set_

\* Dictionary::containsWord
containsWord(word) == ToLower(word) \in word_set_

\* Dictionary::getWordFrequency
getWordFrequency(word) ==
    LET normalized_word == ToLower(word)
    IN IF normalized_word \in DOMAIN word_frequencies_
       THEN word_frequencies_[normalized_word] ELSE 0

\* Dictionary::getPhoneticMatches
getPhoneticMatches(word) ==
    LET phonetic_code == generatePhoneticCode(word)
    IN IF phonetic_code \in DOMAIN phonetic_map_
       THEN phonetic_map_[phonetic_code] ELSE <<>>

\* Dictionary::getAllWords: the words of the returned vector (their order is
\* the iteration order of the unordered_set).
getAllWords == word_set_

\* Dictionary::size
size == word_count_

\* Dictionary::getStats
getStats == <<word_count_, memory_usage_>>

---------------------------------------------------------------------------
\* Dictionary: prefix search.

\* The sequences that hold every element of S once, in an order in which
\* key never increases: what std::sort with the comparator
\* key(a) > key(b) can leave (it is not a stable sort).
RECURSIVE SortedDescending(_, _)
SortedDescending(S, key) ==
    IF S = {} THEN {<<>>}
    ELSE LET top == { x \in S : \A y \in S : key[x] >= key[y] }
         IN UNION { { <<x>> \o t : t \in SortedDescending(S \ {x}, key) } : x \in top }

\* The navigation loop of getWordsWithPrefix: the path of the node reached
\* from the node at current by the characters of prefix from index i on;
\* found is FALSE when a child is missing.
RECURSIVE Navigate(_, _, _)
Navigate(prefix, i, current) ==
    IF i > Len(prefix) THEN [found |-> TRUE, node |-> current]
    ELSE LET child == Append(current, prefix[i])
         IN IF child \notin Children(trie_root_, current)
            THEN [found |-> FALSE, node |-> current]
            ELSE Navigate(prefix, i + 1, child)

\* Dictionary::collectWordsWithPrefix from the node at path node (the path
\* is the prefix argument of the code), with results collected so far: the
\* set of the results it can leave, one for every order in which the
\* unordered_map of children can be iterated.
RECURSIVE collectWordsWithPrefix(_, _, _)
RECURSIVE CollectChildren(_, _, _)
collectWordsWithPrefix(node, results, max_results) ==
    IF Len(results) >= max_results THEN {results}
    ELSE LET pushed == IF trie_root_[node].is_word
                       THEN Append(results, node) ELSE results
         IN CollectChildren(Children(trie_root_, node), pushed, max_results)

\* The for loop over node->children, for the children still to be visited.
CollectChildren(todo, results, max_results) ==
    IF todo = {} THEN {results}
    ELSE UNION { UNION { CollectChildren(todo \ {child}, r, max_results)
                         : r \in collectWordsWithPrefix(child, results, max_results) }
                 : child \in todo }

\* The first half of getWordsWithPrefix, up to the call of std::sort: the
\* vectors that navigation and collection can leave in results.
CollectedWithPrefix(prefix, max_results) ==
    LET normalized_prefix == ToLower(prefix)
        nav == Navigate(normalized_prefix, 1, <<>>)
    IN IF ~nav.found THEN {<<>>}
       ELSE collectWordsWithPrefix(nav.node, <<>>, max_results)

\* A variant of getWordsWithPrefix that returns the words as collected,
\* without the sort.
getWordsWithPrefixUnsorted(prefix, max_results) ==
    CollectedWithPrefix(prefix, max_results)

\* Dictionary::getWordsWithPrefix: the set of the vectors it can return.
getWordsWithPrefix(prefix, max_results) ==
    UNION { SortedDescending(Range(r), [w \in Range(r) |-> getWordFrequency(w)])
            : r \in CollectedWithPrefix(prefix, max_results) }

---------------------------------------------------------------------------
\* SuggestionEngine: edit distance.

Min2(a, b) == IF a < b THEN a ELSE b
Max2(a, b) == IF a > b THEN a ELSE b

\* Row i of a table that leaves out the insertion move.
RECURSIVE EditDistanceRowNoInsertion(_, _, _, _, _)
EditDistanceRowNoInsertion(word1, word2, i, prev, cur) ==
    LET j == Len(cur)
    IN IF j > Len(word2) THEN cur
       ELSE EditDistanceRowNoInsertion(word1, word2, i, prev,
               Append(cur,
                   IF word1[i] = word2[j]
                   THEN prev[j]
                   ELSE 1 + Min2(prev[j + 1], prev[j])))

\* Row i of the table of calculateEditDistance, filled from column
\* Len(cur) on; prev is row i - 1; element j + 1 of a row is dp[.][j].
RECURSIVE EditDistanceRow(_, _, _, _, _)
EditDistanceRow(word1, word2, i, prev, cur) ==
    LET j == Len(cur)
    IN IF j > Len(word2) THEN cur
       ELSE EditDistanceRow(word1, word2, i, prev,
               Append(cur,
                   IF word1[i] = word2[j]
                   THEN prev[j]
                   ELSE 1 + Min2(prev[j + 1], Min2(cur[j], prev[j]))))

\* The rows of the table from row i on; prev is row i - 1.
RECURSIVE EditDistanceRows(_, _, _, _)
EditDistanceRows(word1, word2, i, prev) ==
    IF i > Len(word1) THEN prev[Len(word2) + 1]
    ELSE EditDistanceRows(word1, word2, i + 1,
                          EditDistanceRow(word1, word2, i, prev, <<i>>))

\* SuggestionEngine::calculateEditDistance
calculateEditDistance(word1, word2) ==
    EditDistanceRows(word1, word2, 1, [k \in 1..(Len(word2) + 1) |-> k - 1])

\* Row i of a table in which a transposition is never tried.
RECURSIVE DamerauRowNoTransposition(_, _, _, _, _, _)
DamerauRowNoTransposition(word1, word2, i, prev2, prev, cur) ==
    LET j == Len(cur)
        cost == IF word1[i] = word2[j] THEN 0 ELSE 1
    IN IF j > Len(word2) THEN cur
       ELSE DamerauRowNoTransposition(word1, word2, i, prev2, prev,
               Append(cur, Min2(prev[j + 1] + 1, Min2(cur[j] + 1, prev[j] + cost))))

\* Row i of the table of calculateDamerauLevenshteinDistance, filled from
\* column Len(cur) on; prev is row i - 1 and prev2 is row i - 2.
RECURSIVE DamerauRow(_, _, _, _, _, _)
DamerauRow(word1, word2, i, prev2, prev, cur) ==
    LET j == Len(cur)
        cost == IF word1[i] = word2[j] THEN 0 ELSE 1
        dp == Min2(prev[j + 1] + 1, Min2(cur[j] + 1, prev[j] + cost))
    IN IF j > Len(word2) THEN cur
       ELSE DamerauRow(word1, word2, i, prev2, prev,
               Append(cur,
                   IF /\ i > 1
                      /\ j > 1
                      /\ word1[i] = word2[j - 1]
                      /\ word1[i - 1] = word2[j]
                   THEN Min2(dp, prev2[j - 1] + cost)
                   ELSE dp))

\* The rows of the table from row i on.
RECURSIVE DamerauRows(_, _, _, _, _)
DamerauRows(word1, word2, i, prev2, prev) ==
    IF i > Len(word1) THEN prev[Len(word2) + 1]
    ELSE DamerauRows(word1, word2, i + 1, prev,
                     DamerauRow(word1, word2, i, prev2, prev, <<i>>))

\* SuggestionEngine::calculateDamerauLevenshteinDistance
calculateDamerauLevenshteinDistance(word1, word2) ==
    DamerauRows(word1, word2, 1, <<>>,
                [k \in 1..(Len(word2) + 1) |-> k - 1])

---------------------------------------------------------------------------
\* SuggestionEngine: candidate generation.  The vectors of candidates are
\* modelled as sets: generateSuggestions only tests each element and puts
\* it into an unordered_set.

\* "abcdefghijklmnopqrstuvwxyz"
alphabet == 97..122

\* SuggestionEngine::generateDeletionCandidates
generateDeletionCandidates(word) ==
    { SubSeq(word, 1, i - 1) \o SubSeq(word, i + 1, Len(word)) : i \in 1..Len(word) }

\* SuggestionEngine::generateInsertionCandidates
generateInsertionCandidates(word) ==
    { SubSeq(word, 1, i) \o <<c>> \o SubSeq(word, i + 1, Len(word))
      : i \in 0..Len(word), c \in alphabet }

\* SuggestionEngine::generateSubstitutionCandidates
generateSubstitutionCandidates(word) ==
    UNION { { [word EXCEPT ![i] = c] : c \in { x \in alphabet : x # word[i] } }
            : i \in 1..Len(word) }

\* A variant of generateTranspositionCandidates whose loop starts at the
\* second character.
generateTranspositionCandidatesFromSecond(word) ==
    { [word EXCEPT ![i] = word[i + 1], ![i + 1] = word[i]] : i \in 2..(Len(word) - 1) }

\* SuggestionEngine::generateTranspositionCandidates (word is not empty)
generateTranspositionCandidates(word) ==
    { [word EXCEPT ![i] = word[i + 1], ![i + 1] = word[i]] : i \in 1..(Len(word) - 1) }

\* SuggestionEngine::generateSplitCandidates
generateSplitCandidates(word) ==
    { SubSeq(word, 1, i) \o <<32>> \o SubSeq(word, i + 1, Len(word))
      : i \in { k \in 1..(Len(word) - 1) :
                  /\ containsWord(SubSeq(word, 1, k))
                  /\ containsWord(SubSeq(word, k + 1, Len(word))) } }

\* SuggestionEngine::generatePhoneticSuggestions
generatePhoneticSuggestions(word) == getPhoneticMatches(word)

\* The for loop of generatePrefixSuggestions from prefix length len on: the
\* sets of words it can gather.  Only the elements of each vector that
\* getWordsWithPrefix returns are used, and sorting does not change them, so
\* they are taken from the vector as it is before the sort.
RECURSIVE PrefixLoop(_, _)
PrefixLoop(word, len) ==
    IF len > Len(word) THEN {{}}
    ELSE { Range(prefix_matches) \cup rest
           : prefix_matches \in CollectedWithPrefix(SubSeq(word, 1, len), 20),
             rest \in PrefixLoop(word, len + 1) }

\* SuggestionEngine::generatePrefixSuggestions: the sets of words it can
\* return (the vector is sorted and made unique before it is returned).
generatePrefixSuggestions(word) == PrefixLoop(word, Min2(Len(word), 3))

---------------------------------------------------------------------------
\* SuggestionEngine: ranking.  A score is held in units of 1/60,000,000 and
\* the weights in tenths, so that every term but the logarithm is exact for
\* words of at most six characters.

\* round(1,000,000 * ln(1 + frequency)), for the frequencies of the model.
Ln1pMicro(frequency) ==
    CASE frequency = 0 -> 0
      [] frequency = 1 -> 693147
      [] frequency = 2 -> 1098612
      [] frequency = 3 -> 1386294
      [] frequency = 4 -> 1609438
      [] frequency = 5 -> 1791759
      [] frequency = 10 -> 2397895
      [] frequency = 100 -> 4615121

\* The weights the constructor sets, in tenths.
edit_distance_weight_ == 10
frequency_weight_ == 5
prefix_weight_ == 2

\* The loop that counts the common prefix in calculateSuggestionScore.
RECURSIVE CommonPrefix(_, _, _)
CommonPrefix(original, candidate, i) ==
    IF i <= Min2(Len(original), Len(candidate)) /\ original[i] = candidate[i]
    THEN 1 + CommonPrefix(original, candidate, i + 1)
    ELSE 0

\* SuggestionEngine::calculateSuggestionScore
calculateSuggestionScore(original, candidate) ==
    LET edit_distance == calculateEditDistance(original, candidate)
        frequency == getWordFrequency(candidate)
        min_len == Min2(Len(original), Len(candidate))
        max_len == Max2(Len(original), Len(candidate))
        common_prefix == CommonPrefix(original, candidate, 1)
    IN (edit_distance_weight_ * 6000000) \div (1 + edit_distance)
       + (frequency_weight_ * Ln1pMicro(frequency) * 6) \div 10
       + (6000000 * min_len) \div max_len
       + (prefix_weight_ * 6000000 * common_prefix) \div Len(original)

\* The extraction loop of rankCandidates over the sorted vector of
\* (candidate, score) pairs, from index i on: an element is pushed before the
\* size is compared with the cap.
RECURSIVE RankLoop(_, _, _)
RankLoop(scored_candidates, i, ranked_suggestions) ==
    IF i > Len(scored_candidates) THEN ranked_suggestions
    ELSE LET pushed == Append(ranked_suggestions, scored_candidates[i][1])
         IN IF Len(pushed) >= max_suggestions_ THEN pushed
            ELSE RankLoop(scored_candidates, i + 1, pushed)

\* The scored_candidates of rankCandidates before the sort, as a set.
ScoredCandidates(word, candidates) ==
    { <<candidate, calculateSuggestionScore(word, candidate)>> : candidate \in candidates }

\* SuggestionEngine::rankCandidates: the vectors it can return for the
\* candidates of an unordered_set.
rankCandidates(word, candidates) ==
    LET scored_candidates == ScoredCandidates(word, candidates)
    IN { RankLoop(sorted, 1, <<>>)
         : sorted \in SortedDescending(scored_candidates,
                         [p \in scored_candidates |-> p[2]]) }

\* The candidate_set that generateSuggestions builds for a word that is not
\* empty: the sets it can be, one for every result of the prefix search.
candidate_set(word) ==
    LET deletions == generateDeletionCandidates(word)
        insertions == generateInsertionCandidates(word)
        substitutions == generateSubstitutionCandidates(word)
        transpositions == generateTranspositionCandidates(word)
        splits == generateSplitCandidates(word)
        phonetic == generatePhoneticSuggestions(word)
        edits == { c \in deletions \cup insertions \cup substitutions
                         \cup transpositions \cup splits : containsWord(c) }
    IN { edits \cup Range(phonetic) \cup prefix
         : prefix \in generatePrefixSuggestions(word) }

\* SuggestionEngine::generateSuggestions: the vectors it can return (the
\* engine's dictionary_ pointer is set by the constructor and never null).
generateSuggestions(word) ==
    IF word = <<>> THEN {<<>>}
    ELSE UNION { rankCandidates(word, candidates) : candidates \in candidate_set(word) }

---------------------------------------------------------------------------
\* TextProcessor and SpellChecker: the const methods behind suggestions.

\* std::isalnum in the "C" locale.
IsAlnum(c) == IsDigit(c) \/ (c >= 65 /\ c <= 90) \/ (c >= 97 /\ c <= 122)

\* The characters TextProcessor::removePunctuation keeps: alphanumerics and
\* the apostrophe.
KeptByRemovePunctuation(c) == IsAlnum(c) \/ c = 39

\* TextProcessor::removePunctuation
removePunctuation(word) == SelectSeq(word, KeptByRemovePunctuation)

\* TextProcessor::case_sensitive_ of the SpellChecker's text processor: the
\* SpellChecker constructor sets it to false and nothing sets it again.
case_sensitive_ == FALSE

\* TextProcessor::normalizeWord
normalizeWord(word) ==
    LET normalized == removePunctuation(word)
    IN IF ~case_sensitive_ THEN ToLower(normalized) ELSE normalized

\* suggestions.resize(max_suggestions_) when the vector is longer.
Truncate(suggestions, n) ==
    IF Len(suggestions) > n THEN SubSeq(suggestions, 1, n) ELSE suggestions

\* SpellChecker::getSuggestions: the vectors it can return.
getSuggestions(word) ==
    IF word = <<>> THEN {<<>>}
    ELSE { Truncate(suggestions, spell_checker_max_suggestions_)
           : suggestions \in generateSuggestions(normalizeWord(word)) }

---------------------------------------------------------------------------
\* TextProcessor: tokenization.

\* std::isalpha in the "C" locale.
IsAlpha(c) == (c >= 65 /\ c <= 90) \/ (c >= 97 /\ c <= 122)

\* The first index from p on at which text holds no letter, Len(text) + 1
\* when every character from p on is a letter.
RECURSIVE LettersEnd(_, _)
LettersEnd(text, p) ==
    IF p <= Len(text) /\ IsAlpha(text[p]) THEN LettersEnd(text, p + 1) ELSE p

\* The index after the match of word_regex_, [a-zA-Z]+(?:'[a-zA-Z]+)?, that
\* starts at the letter at index p: the letters, and an apostrophe with the
\* letters after it when a letter follows the apostrophe.
WordMatchEnd(text, p) ==
    LET q == LettersEnd(text, p)
    IN IF q + 1 <= Len(text) /\ text[q] = 39 /\ IsAlpha(text[q + 1])
       THEN LettersEnd(text, q + 1)
       ELSE q

\* std::sregex_iterator over word_regex_ from index p on: the matches from
\* left to right, each with its str() and its position() counted from 0.
RECURSIVE WordMatches(_, _, _)
WordMatches(text, p, matches) ==
    IF p > Len(text) THEN matches
    ELSE IF ~IsAlpha(text[p]) THEN WordMatches(text, p + 1, matches)
    ELSE LET e == WordMatchEnd(text, p)
         IN WordMatches(text, e,
                Append(matches, [str |-> SubSeq(text, p, e - 1), position |-> p - 1]))

\* text starts with prefix and holds more.
StartsWith(text, prefix) ==
    Len(text) > Len(prefix) /\ SubSeq(text, 1, Len(prefix)) = prefix

\* TextProcessor::isUrl: the whole text matches url_regex_,
\* https?://[^\s]+ | www\.[^\s]+ | [a-zA-Z0-9][a-zA-Z0-9-]*\.[a-zA-Z]{2,}
isUrl(text) ==
    \/ \E start \in { <<104, 116, 116, 112, 58, 47, 47>>,
                       <<104, 116, 116, 112, 115, 58, 47, 47>>,
                       <<119, 119, 119, 46>> } :
          /\ StartsWith(text, start)
          /\ \A k \in (Len(start) + 1)..Len(text) : ~IsSpace(text[k])
    \/ \E k \in 2..(Len(text) - 2) :
          /\ IsAlnum(text[1])
          /\ \A m \in 2..(k - 1) : IsAlnum(text[m]) \/ text[m] = 45
          /\ text[k] = 46
          /\ \A m \in (k + 1)..Len(text) : IsAlpha(text[m])

\* TextProcessor::isEmail: the whole text matches email_regex_,
\* [a-zA-Z0-9._%+-]+@[a-zA-Z0-9.-]+\.[a-zA-Z]{2,}
isEmail(text) ==
    \E i \in 2..Len(text) : \E k \in (i + 2)..(Len(text) - 2) :
        /\ \A m \in 1..(i - 1) : IsAlnum(text[m]) \/ text[m] \in {46, 95, 37, 43, 45}
        /\ text[i] = 64
        /\ \A m \in (i + 1)..(k - 1) : IsAlnum(text[m]) \/ text[m] \in {46, 45}
        /\ text[k] = 46
        /\ \A m \in (k + 1)..Len(text) : IsAlpha(text[m])

\* TextProcessor::isNumber: the whole text matches number_regex_,
\* \d+(?:\.\d+)?
isNumber(text) ==
    /\ text # <<>>
    /\ \/ \A m \in 1..Len(text) : IsDigit(text[m])
       \/ \E k \in 2..(Len(text) - 1) :
             /\ text[k] = 46
             /\ \A m \in 1..Len(text) : m # k => IsDigit(text[m])

\* TextProcessor::isAlphabetic
isAlphabetic(word) ==
    /\ word # <<>>
    /\ \A m \in 1..Len(word) : IsAlpha(word[m]) \/ word[m] = 39

\* TextProcessor::ignore_urls_, ignore_emails_ and ignore_numbers_ of the
\* SpellChecker's text processor: true from its constructor on, the setters
\* of SpellChecker change the SpellChecker's own flags only.
ignore_urls_ == TRUE
ignore_emails_ == TRUE
ignore_numbers_ == TRUE

\* TextProcessor::shouldIgnoreWord
shouldIgnoreWord(word) ==
    \/ word = <<>>
    \/ ignore_urls_ /\ isUrl(word)
    \/ ignore_emails_ /\ isEmail(word)
    \/ ignore_numbers_ /\ isNumber(word)
    \/ Len(word) <= 2
    \/ ~isAlphabetic(word)

\* The loop of extractWords over the matches from match k on.
RECURSIVE ExtractWordsLoop(_, _, _)
ExtractWordsLoop(matches, k, words) ==
    IF k > Len(matches) THEN words
    ELSE ExtractWordsLoop(matches, k + 1,
            IF ~shouldIgnoreWord(matches[k].str)
            THEN Append(words, <<normalizeWord(matches[k].str), matches[k].position>>)
            ELSE words)

\* TextProcessor::extractWords: pairs (word, position).
extractWords(text) == ExtractWordsLoop(WordMatches(text, 1, <<>>), 1, <<>>)

\* std::string::npos
npos == -1

\* text.find(c, pos): the offset from 0 of the first c at or after offset
\* pos, npos when there is none.
RECURSIVE Find(_, _, _)
Find(text, c, pos) ==
    IF pos >= Len(text) THEN npos
    ELSE IF text[pos + 1] = c THEN pos
    ELSE Find(text, c, pos + 1)

\* The while loop of extractWordsWithLines: line_number and line_start are
\* moved over every newline before position.
RECURSIVE UpdateLine(_, _, _, _)
UpdateLine(text, position, line_number, line_start) ==
    IF line_start <= position
    THEN LET next_newline == Find(text, 10, line_start)
         IN IF next_newline = npos \/ next_newline > position
            THEN [line_number |-> line_number, line_start |-> line_start]
            ELSE UpdateLine(text, position, line_number + 1, next_newline + 1)
    ELSE [line_number |-> line_number, line_start |-> line_start]

\* A loop that never moves line_number and line_start.
RECURSIVE ExtractWithLinesLoopOneLine(_, _, _, _, _, _)
ExtractWithLinesLoopOneLine(text, matches, k, line_number, line_start, words) ==
    IF k > Len(matches) THEN words
    ELSE ExtractWithLinesLoopOneLine(text, matches, k + 1, line_number, line_start,
            IF ~shouldIgnoreWord(matches[k].str)
            THEN Append(words, <<normalizeWord(matches[k].str), line_number,
                                 matches[k].position - line_start + 1>>)
            ELSE words)

\* The loop of extractWordsWithLines over the matches from match k on.
RECURSIVE ExtractWithLinesLoop(_, _, _, _, _, _)
ExtractWithLinesLoop(text, matches, k, line_number, line_start, words) ==
    IF k > Len(matches) THEN words
    ELSE LET position == matches[k].position
             line == UpdateLine(text, position, line_number, line_start)
             column == position - line.line_start + 1
         IN ExtractWithLinesLoop(text, matches, k + 1, line.line_number, line.line_start,
                IF ~shouldIgnoreWord(matches[k].str)
                THEN Append(words, <<normalizeWord(matches[k].str), line.line_number, column>>)
                ELSE words)

\* TextProcessor::extractWordsWithLines: triples (word, line, column).
extractWordsWithLines(text) ==
    ExtractWithLinesLoop(text, WordMatches(text, 1, <<>>), 1, 1, 0, <<>>)

\* TextProcessor::readFile, file being what the path holds: the empty string
\* when the file does not open.
readFile(file) == IF ~file.opens THEN <<>> ELSE file.contents

---------------------------------------------------------------------------
\* SpellChecker: checks.

\* SpellChecker::isCorrect
isCorrect(word) ==
    IF word = <<>> THEN TRUE
    ELSE IF shouldIgnoreWord(word) THEN TRUE
    ELSE LET normalized_word == normalizeWord(word)
             found == containsWord(normalized_word)
         IN IF ~found /\ ~spell_checker_case_sensitive_
            THEN containsWord(ToLower(normalized_word))
            ELSE found

\* A loop that puts each misspelled word before the ones found so far.
RECURSIVE CheckLoopPrepending(_, _, _)
CheckLoopPrepending(words, k, misspelled_words) ==
    IF k > Len(words) THEN misspelled_words
    ELSE CheckLoopPrepending(words, k + 1,
            IF ~isCorrect(words[k][1])
            THEN <<words[k]>> \o misspelled_words
            ELSE misspelled_words)

\* The loop of checkText and of checkFile over the extracted words from
\* word k on.
RECURSIVE CheckLoop(_, _, _)
CheckLoop(words, k, misspelled_words) ==
    IF k > Len(words) THEN misspelled_words
    ELSE CheckLoop(words, k + 1,
            IF ~isCorrect(words[k][1])
            THEN Append(misspelled_words, words[k])
            ELSE misspelled_words)

\* SpellChecker::checkText
checkText(text) == CheckLoop(extractWords(text), 1, <<>>)

\* SpellChecker::checkFile, file being what the path holds: the vector it
\* returns, and whether it wrote "Could not read file" to std::cerr.
checkFile(file) ==
    LET file_contents == readFile(file)
    IN IF file_contents = <<>>
       THEN [ret |-> <<>>, cerr |-> TRUE]
       ELSE [ret |-> CheckLoop(extractWordsWithLines(file_contents), 1, <<>>),
             cerr |-> FALSE]

---------------------------------------------------------------------------
\* The state machine.

Freqs == 0..MaxFreq

\* The file argument recorded for a call that reads no file.
NoFile == [opens |-> FALSE, lines |-> <<>>]

\* The record of a call: its name, its word and frequency arguments (an
\* empty word and 0 when it has none), the file it read, what it returned,
\* and what containsWord(word), getWordFrequency(word) and size() were
\* before it.
Call(op, word, frequency, ret) ==
    [ op |-> op, word |-> word, frequency |-> frequency, ret |-> ret,
      file |-> NoFile,
      had |-> containsWord(word),
      old_frequency |-> getWordFrequency(word),
      old_size |-> size ]

Init ==
    /\ word_set_ = EmptyDictionary.word_set_
    /\ word_frequencies_ = EmptyDictionary.word_frequencies_
    /\ phonetic_map_ = EmptyDictionary.phonetic_map_
    /\ trie_root_ = EmptyDictionary.trie_root_
    /\ word_count_ = 0
    /\ memory_usage_ = 0
    /\ max_suggestions_ = 10
    /\ spell_checker_max_suggestions_ = 10
    /\ spell_checker_case_sensitive_ = FALSE
    /\ last = Call("init", <<>>, 0, "void")
    /\ nops = 0

\* The Dictionary fields become those of d.
Becomes(d) ==
    /\ word_set_' = d.word_set_
    /\ word_frequencies_' = d.word_frequencies_
    /\ phonetic_map_' = d.phonetic_map_
    /\ trie_root_' = d.trie_root_
    /\ word_count_' = d.word_count_
    /\ memory_usage_' = d.memory_usage_

\* Dictionary::addWord(word, frequency)
AddWord(word, frequency) ==
    /\ nops < MaxOps
    /\ Becomes(DictAddWord(Dict, word, frequency))
    /\ last' = Call("addWord", word, frequency, "void")
    /\ nops' = nops + 1
    /\ UNCHANGED <<max_suggestions_, spell_checker_max_suggestions_,
                   spell_checker_case_sensitive_>>

\* SpellChecker::addWord(word): the dictionary's addWord with the default
\* frequency 1, unless word is empty.
CheckerAddWord(word) ==
    /\ nops < MaxOps
    /\ IF word # <<>>
       THEN Becomes(DictAddWord(Dict, word, 1))
       ELSE Becomes(Dict)
    /\ last' = Call("addWord", word, 1, "void")
    /\ nops' = nops + 1
    /\ UNCHANGED <<max_suggestions_, spell_checker_max_suggestions_,
                   spell_checker_case_sensitive_>>

\* Dictionary::removeWord(word)
RemoveWord(word) ==
    /\ nops < MaxOps
    /\ LET r == DictRemoveWord(Dict, word)
       IN /\ Becomes(r.dict)
          /\ last' = Call("removeWord", word, 0, IF r.ret THEN "true" ELSE "false")
    /\ nops' = nops + 1
    /\ UNCHANGED <<max_suggestions_, spell_checker_max_suggestions_,
                   spell_checker_case_sensitive_>>

\* Dictionary::clear()
Clear ==
    /\ nops < MaxOps
    /\ Becomes(DictClear(Dict))
    /\ last' = Call("clear", <<>>, 0, "void")
    /\ nops' = nops + 1
    /\ UNCHANGED <<max_suggestions_, spell_checker_max_suggestions_,
                   spell_checker_case_sensitive_>>

\* Dictionary::loadFromFile(file_path), file being what the path holds.
LoadFromFile(file) ==
    /\ nops < MaxOps
    /\ LET r == DictLoadFromFile(Dict, file)
       IN /\ Becomes(r.dict)
          /\ last' = [Call("loadFromFile", <<>>, 0, r.ret) EXCEPT !.file = file]
    /\ nops' = nops + 1
    /\ UNCHANGED <<max_suggestions_, spell_checker_max_suggestions_,
                   spell_checker_case_sensitive_>>

\* SuggestionEngine::setMaxSuggestions(max_suggestions)
SetMaxSuggestions(max_suggestions) ==
    /\ nops < MaxOps
    /\ max_suggestions_' = max_suggestions
    /\ last' = Call("setMaxSuggestions", <<>>, 0, "void")
    /\ nops' = nops + 1
    /\ UNCHANGED <<word_set_, word_frequencies_, phonetic_map_, trie_root_,
                   word_count_, memory_usage_, spell_checker_max_suggestions_,
                   spell_checker_case_sensitive_>>

Next ==
    \/ \E word \in InputWords \cup {<<>>}, frequency \in Freqs : AddWord(word, frequency)
    \/ \E word \in InputWords \cup {<<>>} : CheckerAddWord(word)
    \/ \E word \in InputWords : RemoveWord(word)
    \/ Clear
    \/ \E file \in Files : LoadFromFile(file)
    \/ \E max_suggestions \in 0..MaxSugg : SetMaxSuggestions(max_suggestions)

Spec == Init /\ [][Next]_vars

---------------------------------------------------------------------------
\* A second specification: the SpellChecker facade over dictionaries that
\* are loaded from files.

\* "hello:1"
HelloFile ==
    [opens |-> TRUE, lines |->
        << <<104, 101, 108, 108, 111, 58, 49>> >>]

\* "the:100", "tea:5", "ten:10"
TheFile ==
    [opens |-> TRUE, lines |->
        << <<116, 104, 101, 58, 49, 48, 48>>,
           <<116, 101, 97, 58, 53>>,
           <<116, 101, 110, 58, 49, 48>> >>]

\* "tea:5", "ten:10", "the:100", "test:2"
TestFile ==
    [opens |-> TRUE, lines |->
        << <<116, 101, 97, 58, 53>>,
           <<116, 101, 110, 58, 49, 48>>,
           <<116, 104, 101, 58, 49, 48, 48>>,
           <<116, 101, 115, 116, 58, 50>> >>]

\* Eleven words under the prefix "a": "a:1", "ab:1", "abc:1", "abcd:1",
\* "abcde:1", "abcdef:1", "ac:2", "acd:2", "acde:2", "acdef:2", "acdefg:2".
ChainFile ==
    [opens |-> TRUE, lines |->
        << <<97, 58, 49>>,
           <<97, 98, 58, 49>>,
           <<97, 98, 99, 58, 49>>,
           <<97, 98, 99, 100, 58, 49>>,
           <<97, 98, 99, 100, 101, 58, 49>>,
           <<97, 98, 99, 100, 101, 102, 58, 49>>,
           <<97, 99, 58, 50>>,
           <<97, 99, 100, 58, 50>>,
           <<97, 99, 100, 101, 58, 50>>,
           <<97, 99, 100, 101, 102, 58, 50>>,
           <<97, 99, 100, 101, 102, 103, 58, 50>> >>]

\* The dictionary files of the facade: the four above and a missing one.
CheckerFiles ==
    { [opens |-> FALSE, lines |-> <<>>], HelloFile, TheFile, TestFile, ChainFile }

\* Words handed to the facade's addWord and removeWord: "the", "Tea",
\* "test", "abc ac", "1a".
CheckerWords ==
    { <<116, 104, 101>>, <<84, 101, 97>>, <<116, 101, 115, 116>>,
      <<97, 98, 99, 32, 97, 99>>, <<49, 97>> }

\* Caps handed to the facade's setMaxSuggestions.
CheckerCaps == {0, 1, 3, 15}

\* Words handed to the facade's getSuggestions: "teh", "Teh!", "hte",
\* "helllo", "a", "te", "!".
CheckerQueries ==
    { <<116, 101, 104>>, <<84, 101, 104, 33>>, <<104, 116, 101>>, <<104, 101, 108, 108, 108, 111>>,
      <<97>>, <<116, 101>>, <<33>> }

\* SpellChecker::loadDictionary(dict_path), file being what the path holds:
\* fileExists and the ifstream of loadFromFile open the same path.
LoadDictionary(file) ==
    /\ nops < MaxOps
    /\ LET r == IF ~file.opens
                THEN [dict |-> Dict, ret |-> "false"]
                ELSE DictLoadFromFile(Dict, file)
       IN /\ Becomes(r.dict)
          /\ last' = [Call("loadDictionary", <<>>, 0, r.ret) EXCEPT !.file = file]
    /\ nops' = nops + 1
    /\ UNCHANGED <<max_suggestions_, spell_checker_max_suggestions_,
                   spell_checker_case_sensitive_>>

\* SpellChecker::removeWord(word)
CheckerRemoveWord(word) ==
    /\ nops < MaxOps
    /\ Becomes(DictRemoveWord(Dict, word).dict)
    /\ last' = Call("removeWord", word, 0, "void")
    /\ nops' = nops + 1
    /\ UNCHANGED <<max_suggestions_, spell_checker_max_suggestions_,
                   spell_checker_case_sensitive_>>

\* SpellChecker::setMaxSuggestions(max_suggestions)
CheckerSetMaxSuggestions(max_suggestions) ==
    /\ nops < MaxOps
    /\ spell_checker_max_suggestions_' = max_suggestions
    /\ last' = Call("setMaxSuggestions", <<>>, 0, "void")
    /\ nops' = nops + 1
    /\ UNCHANGED <<word_set_, word_frequencies_, phonetic_map_, trie_root_,
                   word_count_, memory_usage_, max_suggestions_,
                   spell_checker_case_sensitive_>>

NextChecker ==
    \/ \E file \in CheckerFiles : LoadDictionary(file)
    \/ \E word \in CheckerWords \cup {<<>>} : CheckerAddWord(word)
    \/ \E word \in CheckerWords : CheckerRemoveWord(word)
    \/ \E max_suggestions \in CheckerCaps : CheckerSetMaxSuggestions(max_suggestions)

SpecChecker == Init /\ [][NextChecker]_vars

---------------------------------------------------------------------------
\* A third specification: the edit distances of the engine, which read no
\* field of the engine or of the dictionary, applied to pairs of words.

\* The longest word handed to a distance.
MaxLen == 4

\* Every word over "a" and "b" of at most n characters.
RECURSIVE WordsUpTo(_)
WordsUpTo(n) ==
    IF n = 0 THEN { <<>> }
    ELSE LET shorter == WordsUpTo(n - 1)
         IN shorter \cup { Append(w, c) : w \in shorter, c \in {97, 98} }

DistanceWords == WordsUpTo(MaxLen)

\* The record of a call of a const method: its name, its arguments and
\* what it returned.
Query(op, args, ret) == [op |-> op, args |-> args, ret |-> ret]

\* call is the record of a call of a const method.
IsQuery(call) == "args" \in DOMAIN call

\* A call of SuggestionEngine::calculateEditDistance(word1, word2).  A
\* const method changes no field, so a behaviour that goes on after the
\* call visits the states of the behaviour without it: a behaviour makes
\* one such call, as its last step.
EditDistance(word1, word2) ==
    /\ ~IsQuery(last)
    /\ last' = Query("calculateEditDistance", <<word1, word2>>,
                     calculateEditDistance(word1, word2))
    /\ UNCHANGED nops
    /\ UNCHANGED <<word_set_, word_frequencies_, phonetic_map_, trie_root_,
                   word_count_, memory_usage_, max_suggestions_,
                   spell_checker_max_suggestions_, spell_checker_case_sensitive_>>

\* A call of
\* SuggestionEngine::calculateDamerauLevenshteinDistance(word1, word2),
\* const as well.
DamerauLevenshteinDistance(word1, word2) ==
    /\ ~IsQuery(last)
    /\ last' = Query("calculateDamerauLevenshteinDistance", <<word1, word2>>,
                     calculateDamerauLevenshteinDistance(word1, word2))
    /\ UNCHANGED nops
    /\ UNCHANGED <<word_set_, word_frequencies_, phonetic_map_, trie_root_,
                   word_count_, memory_usage_, max_suggestions_,
                   spell_checker_max_suggestions_, spell_checker_case_sensitive_>>

NextDistance ==
    \/ \E word1 \in DistanceWords, word2 \in DistanceWords : EditDistance(word1, word2)
    \/ \E word1 \in DistanceWords, word2 \in DistanceWords :
            DamerauLevenshteinDistance(word1, word2)

SpecDistance == Init /\ [][NextDistance]_vars

---------------------------------------------------------------------------
\* A fourth specification: the checks of the SpellChecker facade over
\* short texts, with the dictionary loaded from a file or left empty.

\* "abc:1", "hello:1", "world:1", "it's:1"
TextDictFile ==
    [opens |-> TRUE, lines |->
        << <<97, 98, 99, 58, 49>>,
           <<104, 101, 108, 108, 111, 58, 49>>,
           <<119, 111, 114, 108, 100, 58, 49>>,
           <<105, 116, 39, 115, 58, 49>> >>]

\* The dictionary files of the checks: the one above and a missing one.
TextDictFiles == { [opens |-> FALSE, lines |-> <<>>], TextDictFile }

\* The pieces texts are made of: "abd", "It's", "ab", a space and a newline.
TextPieces ==
    { <<97, 98, 100>>, <<73, 116, 39, 115>>, <<97, 98>>,
      <<32>>, <<10>> }

\* The most pieces in a text.
MaxPieces == 3

\* Every text of at most n pieces.
RECURSIVE TextsUpTo(_)
TextsUpTo(n) ==
    IF n = 0 THEN { <<>> }
    ELSE LET shorter == TextsUpTo(n - 1)
         IN shorter \cup { t \o piece : t \in shorter, piece \in TextPieces }

\* "Hello, world!\nFoo bar."
HelloWorldText ==
    <<72, 101, 108, 108, 111, 44, 32, 119, 111, 114, 108, 100, 33, 10, 70,
      111, 111, 32, 98, 97, 114, 46>>

Texts == TextsUpTo(MaxPieces) \cup { HelloWorldText }

\* The files handed to checkFile: an unreadable one and one of each text,
\* the empty text included.
TextFiles ==
    { [opens |-> FALSE, contents |-> <<>>] }
        \cup { [opens |-> TRUE, contents |-> text] : text \in Texts }

\* Words handed to isCorrect: "abc", "Abc", "ABC", "abd", "Hello", "it's",
\* "IT'S", "ab", "abc1", "a.bc" and the empty word.
TextWords ==
    { <<97, 98, 99>>, <<65, 98, 99>>, <<65, 66, 67>>, <<97, 98, 100>>,
      <<72, 101, 108, 108, 111>>, <<105, 116, 39, 115>>, <<73, 84, 39, 83>>,
      <<97, 98>>, <<97, 98, 99, 49>>, <<97, 46, 98, 99>>, <<>> }

\* SpellChecker::setCaseSensitive(sensitive)
CheckerSetCaseSensitive(sensitive) ==
    /\ nops < MaxOps
    /\ spell_checker_case_sensitive_' = sensitive
    /\ last' = Call("setCaseSensitive", <<>>, 0, "void")
    /\ nops' = nops + 1
    /\ UNCHANGED <<word_set_, word_frequencies_, phonetic_map_, trie_root_,
                   word_count_, memory_usage_, max_suggestions_,
                   spell_checker_max_suggestions_>>

\* What a call of a const method of the facade leaves alone.
QueryFrame ==
    UNCHANGED <<word_set_, word_frequencies_, phonetic_map_, trie_root_,
                word_count_, memory_usage_, max_suggestions_,
                spell_checker_max_suggestions_, spell_checker_case_sensitive_,
                nops>>

\* A call of SpellChecker::isCorrect(word), the last step of a behaviour.
IsCorrect(word) ==
    /\ ~IsQuery(last)
    /\ last' = Query("isCorrect", <<word>>, isCorrect(word))
    /\ QueryFrame

\* A call of SpellChecker::checkText(text).
CheckText(text) ==
    /\ ~IsQuery(last)
    /\ last' = Query("checkText", <<text>>, checkText(text))
    /\ QueryFrame

\* A call of SpellChecker::checkFile(file_path), file being what the path
\* holds.
CheckFile(file) ==
    /\ ~IsQuery(last)
    /\ last' = Query("checkFile", <<file>>, checkFile(file))
    /\ QueryFrame

\* A call of TextProcessor::extractWordsWithLines(text).
ExtractWordsWithLines(text) ==
    /\ ~IsQuery(last)
    /\ last' = Query("extractWordsWithLines", <<text>>, extractWordsWithLines(text))
    /\ QueryFrame

NextText ==
    \/ \E file \in TextDictFiles : LoadDictionary(file)
    \/ \E sensitive \in BOOLEAN : CheckerSetCaseSensitive(sensitive)
    \/ \E word \in TextWords : IsCorrect(word)
    \/ \E text \in Texts : CheckText(text)
    \/ \E file \in TextFiles : CheckFile(file)
    \/ \E text \in Texts : ExtractWordsWithLines(text)

SpecText == Init /\ [][NextText]_vars

---------------------------------------------------------------------------
\* Properties.

\* Largest max_results handed to getWordsWithPrefix in the properties.
MaxResults == 3

\* The prefixes handed to getWordsWithPrefix: every prefix of a query word.
QueryPrefixes == UNION { { SubSeq(w, 1, k) : k \in 0..Len(w) } : w \in QueryWords }

\* a is a prefix of b
IsPrefix(a, b) == Len(a) <= Len(b) /\ SubSeq(b, 1, Len(a)) = a

\* The strings some index of the dictionary knows.
KnownWords ==
    word_set_ \cup DOMAIN word_frequencies_ \cup DOMAIN trie_root_
    \cup UNION { Range(phonetic_map_[c]) : c \in DOMAIN phonetic_map_ }

\* word terminates a trie path whose node is marked is_word.
InTrie(word) == word \in DOMAIN trie_root_ /\ trie_root_[word].is_word

\* word is an element of its own phonetic code's bucket.
InOwnBucket(word) ==
    LET code == generatePhoneticCode(word)
    IN code \in DOMAIN phonetic_map_ /\ word \in Range(phonetic_map_[code])

\* The number of indices of s that hold x.
Occurrences(s, x) == Cardinality({ i \in 1..Len(s) : s[i] = x })

\* C1: the four indexes agree on the key set: a word is in the exact set
\* iff it terminates a trie path marked is_word iff it is in its own
\* phonetic code's bucket iff it has an entry in the frequency map.
C1_IndexesAgree ==
    \A w \in KnownWords :
        /\ (w \in word_set_) <=> InTrie(w)
        /\ (w \in word_set_) <=> InOwnBucket(w)
        /\ (w \in word_set_) <=> (w \in DOMAIN word_frequencies_)

\* C2: right after add_word(w) with w not empty, contains(w) is true, and
\* right after remove_word(w), contains(w) is false, for w in any case.
C2_AddThenContains ==
    /\ (last.op = "addWord" /\ last.word # <<>>) =>
          \A v \in QueryWords \cup {last.word} :
              ToLower(v) = ToLower(last.word) => containsWord(v)
    /\ last.op = "removeWord" =>
          \A v \in QueryWords \cup {last.word} :
              ToLower(v) = ToLower(last.word) => ~containsWord(v)

\* C2 witness: a word was stored and then removed under its uppercase
\* spelling.
C2_Witness ==
    /\ last.op = "removeWord"
    /\ last.ret = "true"
    /\ last.word # ToLower(last.word)

\* C3: every word words_with_prefix(p, max) returns starts with p (in
\* lowercase) and is in the lexicon, in every reachable state.
C3_PrefixResultsInLexicon ==
    \A p \in QueryPrefixes, max \in 0..MaxResults :
        \A r \in getWordsWithPrefix(p, max) :
            \A i \in 1..Len(r) : IsPrefix(ToLower(p), r[i]) /\ containsWord(r[i])

\* C4: every string generate_suggestions(w) returns for a word w that is
\* not empty is in the lexicon.
C4_SuggestionsInLexicon ==
    \A w \in QueryWords :
        \A r \in generateSuggestions(w) :
            \A i \in 1..Len(r) : containsWord(r[i])

\* C5: contains(w) iff frequency(w) > 0 iff w is in all_words(), whatever
\* frequency add_word or load_from_file was given.
C5_ContainsIffPositiveFrequency ==
    \A w \in QueryWords \cup KnownWords :
        /\ containsWord(w) <=> (getWordFrequency(w) > 0)
        /\ containsWord(w) <=> (ToLower(w) \in getAllWords)

\* C6: size() is the number of words of the exact set; it never drifts
\* and never goes below zero.
C6_SizeIsCardinality ==
    /\ size = Cardinality(word_set_)
    /\ size >= 0

\* C6 witness: a removal took the counter from two words to one.
C6_Witness ==
    /\ last.op = "removeWord"
    /\ last.ret = "true"
    /\ size = 1

\* C7: each stored word occurs exactly once in exactly one bucket, its own
\* code's, so phonetic_matches never returns a word twice.
C7_NoDuplicateBucketEntries ==
    /\ \A w \in word_set_ :
          \A c \in DOMAIN phonetic_map_ :
              Occurrences(phonetic_map_[c], w)
                  = (IF c = generatePhoneticCode(w) THEN 1 ELSE 0)
    /\ \A w \in QueryWords :
          \A x \in Range(getPhoneticMatches(w)) :
              Occurrences(getPhoneticMatches(w), x) = 1

\* C8: every stored word is not empty and holds only a-z and apostrophe.
C8_StoredWordsWellFormed ==
    \A w \in word_set_ :
        /\ w # <<>>
        /\ \A i \in 1..Len(w) : w[i] \in (97..122) \cup {39}

\* C9: add_word(w, f1) followed by add_word(w, f2) (w in any case) leaves
\* size() as it was after the first call, and frequency(w) is f2.
C9_AddWordIdempotent ==
    [][ ( /\ last.op = "addWord"
          /\ last'.op = "addWord"
          /\ last.word # <<>>
          /\ ToLower(last'.word) = ToLower(last.word) )
        => ( /\ size' = size
             /\ getWordFrequency(last.word)' = last'.frequency ) ]_vars

\* C9 witness: add_word just ran for a word that was stored with another,
\* positive frequency, and the frequency map holds the new frequency.
C9_Witness ==
    /\ last.op = "addWord"
    /\ last.word # <<>>
    /\ last.had
    /\ last.old_frequency > 0
    /\ last.frequency > 0
    /\ last.old_frequency # last.frequency
    /\ getWordFrequency(last.word) = last.frequency
    /\ size = last.old_size

\* C10: generate_suggestions(w) returns at most max_suggestions strings,
\* for every configured max_suggestions, 0 included.
C10_AtMostMaxSuggestions ==
    \A w \in QueryWords :
        \A r \in generateSuggestions(w) : Len(r) <= max_suggestions_

\* C11: after the checker's cap is set to N, suggestions(word) returns the
\* first min(N, size of the candidate pool) candidates of a ranking of the
\* pool by score, for every N, those above 10 included.
C11_SuggestionsCappedByCheckerMax ==
    \A w \in CheckerQueries :
        LET word == normalizeWord(w)
            N == spell_checker_max_suggestions_
        IN \A r \in getSuggestions(w) :
              IF word = <<>> THEN r = <<>>
              ELSE \E pool \in candidate_set(word) :
                     LET scored == { <<c, calculateSuggestionScore(word, c)>> : c \in pool }
                     IN \E ranking \in SortedDescending(scored, [p \in scored |-> p[2]]) :
                            r = [i \in 1..Min2(N, Cardinality(pool)) |-> ranking[i][1]]

\* C12: remove_word(w) returns true iff w was present (in any case) before
\* the call, and a call that returns false leaves the exact set, the
\* frequency map, the phonetic buckets, the trie and size() as they were.
C12_RemoveReportsPresence ==
    [][ \A word \in InputWords :
          RemoveWord(word) =>
              /\ (last'.ret = "true") <=> containsWord(word)
              /\ last'.ret = "false" =>
                    UNCHANGED <<word_set_, word_frequencies_, phonetic_map_,
                                trie_root_, word_count_>> ]_vars

\* C12 witness: remove_word returned false for a word whose trie terminal
\* is still marked (it was stored and removed before), the lexicon holding
\* another word.
C12_Witness ==
    /\ last.op = "removeWord"
    /\ last.ret = "false"
    /\ InTrie(ToLower(last.word))
    /\ size > 0

\* Largest lexicon written to a file in the properties.
MaxSaved == 3

\* C13: save_to_file followed by load_from_file into a fresh lexicon gives
\* the same all_words() and the same frequency for every word, for every
\* lexicon built by add_word (here: of at most MaxSaved words).
C13_SaveLoadRoundTrip ==
    size <= MaxSaved =>
        \A file \in DictSaveToFile(Dict) :
            LET loaded == DictLoadFromFile(EmptyDictionary, file)
            IN /\ loaded.ret = "true"
               /\ loaded.dict.word_set_ = getAllWords
               /\ \A w \in getAllWords \cup loaded.dict.word_set_ :
                     /\ w \in DOMAIN loaded.dict.word_frequencies_
                     /\ loaded.dict.word_frequencies_[w] = getWordFrequency(w)

\* A line of a dictionary file as the file format reads it: the line with
\* its whitespace stripped, the word before the first ':' (the whole line
\* when there is none) in lowercase, and the text after the ':'.
Stripped(line) == SelectSeq(line, NotSpace)

EntryWord(line) ==
    LET l == Stripped(line)
        c == FindColon(l, 1)
    IN ToLower(IF c = 0 THEN l ELSE SubSeq(l, 1, c - 1))

HasFrequency(line) == FindColon(Stripped(line), 1) # 0

FrequencyText(line) ==
    LET l == Stripped(line) IN SubSeq(l, FindColon(l, 1) + 1, Len(l))

\* The frequency part of the line is malformed: it is there and it is not
\* a decimal number.
MalformedFrequency(line) ==
    /\ HasFrequency(line)
    /\ \/ FrequencyText(line) = <<>>
       \/ \E i \in 1..Len(FrequencyText(line)) : ~IsDigit(FrequencyText(line)[i])

\* The line is an entry: it names a word and its frequency is not malformed.
IsEntry(line) == EntryWord(line) # <<>> /\ ~MalformedFrequency(line)

EntryFrequency(line) ==
    IF HasFrequency(line) THEN DigitsValue(FrequencyText(line), 0) ELSE 1

\* C14: a line whose frequency part is malformed is skipped silently:
\* load_from_file of a file that opens returns true, no exception leaves
\* it, and the entries of the other lines, those after the malformed line
\* included, are in the lexicon.
C14_MalformedLineSkipped ==
    (last.op = "loadFromFile" /\ last.file.opens) =>
        /\ last.ret = "true"
        /\ \A i \in 1..Len(last.file.lines) :
              IsEntry(last.file.lines[i]) => containsWord(EntryWord(last.file.lines[i]))

\* The entries of a file: the word of every line that is an entry, with the
\* frequency of the last line that names it.
RECURSIVE FileEntries(_)
FileEntries(lines) ==
    IF lines = <<>> THEN [w \in {} |-> 0]
    ELSE LET before == FileEntries(SubSeq(lines, 1, Len(lines) - 1))
             line == lines[Len(lines)]
         IN IF ~IsEntry(line) THEN before
            ELSE [w \in DOMAIN before \cup {EntryWord(line)} |->
                    IF w = EntryWord(line) THEN EntryFrequency(line) ELSE before[w]]

\* Every string the calls of the model can store or ask for.
Universe ==
    QueryWords \cup { ToLower(w) : w \in InputWords } \cup { EntryWord(l) : l \in FileLines }

\* contains, frequency, all_words, phonetic_matches and words_with_prefix
\* report the words and frequencies of entries, and nothing else.
LexiconIs(entries) ==
    /\ getAllWords = DOMAIN entries
    /\ size = Cardinality(DOMAIN entries)
    /\ \A w \in Universe :
          /\ containsWord(w) <=> (ToLower(w) \in DOMAIN entries)
          /\ getWordFrequency(w)
                = (IF ToLower(w) \in DOMAIN entries THEN entries[ToLower(w)] ELSE 0)
          /\ Range(getPhoneticMatches(w))
                = { x \in DOMAIN entries : generatePhoneticCode(x) = generatePhoneticCode(w) }
    /\ \A p \in QueryPrefixes, max \in 0..MaxResults :
          LET expected == { x \in DOMAIN entries : IsPrefix(ToLower(p), x) }
          IN \A r \in getWordsWithPrefix(p, max) :
                /\ Range(r) \subseteq expected
                /\ Len(r) = Min2(max, Cardinality(expected))

\* C15: a load_from_file that returns true replaces the lexicon: contains,
\* frequency, all_words, phonetic_matches and words_with_prefix then report
\* exactly the entries of the file, each with the frequency of its last
\* line (1 when the line gives none), and no word of the lexicon before.
C15_LoadReplacesLexicon ==
    (last.op = "loadFromFile" /\ last.ret = "true") =>
        LexiconIs(FileEntries(last.file.lines))

\* C15 witness: a load returned true on a lexicon of two words and left a
\* lexicon of one word, read from a line without a frequency.
C15_Witness ==
    /\ last.op = "loadFromFile"
    /\ last.ret = "true"
    /\ last.old_size = 2
    /\ size = 1
    /\ \E i \in 1..Len(last.file.lines) :
          IsEntry(last.file.lines[i]) /\ ~HasFrequency(last.file.lines[i])

\* A phonetic code of four characters: a letter A-Z and three digits 0-6.
WellFormedCode(code) ==
    /\ Len(code) = 4
    /\ code[1] \in 65..90
    /\ \A i \in 2..4 : code[i] \in 48..54

\* C16: phonetic_code(w) has length 4, its first character is in A-Z and
\* the other three are digits 0-6, for every word w the lexicon stores and
\* every code it keeps a bucket for.
C16_PhoneticCodeShape ==
    /\ \A w \in word_set_ : WellFormedCode(generatePhoneticCode(w))
    /\ \A code \in DOMAIN phonetic_map_ : WellFormedCode(code)

\* The characters the phonetic code skips, among others: the vowels, h, w,
\* y and the apostrophe.
SkippedChars == {97, 101, 105, 111, 117, 104, 119, 121, 39}

\* word with the character c put in after its first i characters.
WithCharAfter(word, i, c) ==
    SubSeq(word, 1, i) \o <<c>> \o SubSeq(word, i + 1, Len(word))

\* C17: "Robert" and "Rupert" both code to "R163"; a skipped character put
\* anywhere after the first character of a word leaves its code as it is
\* (it does not reset the collapsing of duplicates); and phonetic_matches
\* of either of two stored words with equal code returns both.
C17_PhoneticSkipsAndMatches ==
    /\ generatePhoneticCode(<<82, 111, 98, 101, 114, 116>>) = <<82, 49, 54, 51>>
    /\ generatePhoneticCode(<<82, 117, 112, 101, 114, 116>>) = <<82, 49, 54, 51>>
    /\ \A w \in word_set_ \cup {last.word} :
          \A i \in 1..Len(w), c \in SkippedChars :
              generatePhoneticCode(WithCharAfter(w, i, c)) = generatePhoneticCode(w)
    /\ \A w1 \in word_set_, w2 \in word_set_ :
          generatePhoneticCode(w1) = generatePhoneticCode(w2) =>
              {w1, w2} \subseteq Range(getPhoneticMatches(w1))

\* C17 witness: "ab" and "abb", whose codes collapse to the same "A100", are
\* both stored and phonetic_matches("abb") returns "ab".
C17_Witness ==
    /\ {<<97, 98>>, <<97, 98, 98>>} \subseteq word_set_
    /\ generatePhoneticCode(<<97, 98>>) = generatePhoneticCode(<<97, 98, 98>>)
    /\ <<97, 98>> \in Range(getPhoneticMatches(<<97, 98, 98>>))

\* s without its i-th character.
Without(s, i) == SubSeq(s, 1, i - 1) \o SubSeq(s, i + 1, Len(s))

\* x is w with two adjacent characters swapped.
IsSwap(w, x) ==
    /\ Len(x) = Len(w)
    /\ \E i \in 1..(Len(w) - 1) :
          /\ x[i] = w[i + 1]
          /\ x[i + 1] = w[i]
          /\ \A j \in 1..Len(w) : j \notin {i, i + 1} => x[j] = w[j]

\* x is obtained from w by one deletion, one insertion of a letter a-z, one
\* substitution by another letter a-z, or one swap of adjacent characters.
OneEditAway(w, x) ==
    \/ \E i \in 1..Len(w) : x = Without(w, i)
    \/ \E i \in 1..Len(x) : x[i] \in 97..122 /\ Without(x, i) = w
    \/ /\ Len(x) = Len(w)
       /\ \E i \in 1..Len(w) :
             /\ x[i] \in 97..122
             /\ x[i] # w[i]
             /\ \A j \in 1..Len(w) : j # i => x[j] = w[j]
    \/ IsSwap(w, x)

\* The words handed to the engine's generateSuggestions: the facade's
\* queries as normalizeWord leaves them, the empty ones left out.
EngineQueries == { normalizeWord(w) : w \in CheckerQueries } \ {<<>>}

\* C18: every lexicon word one edit away from a word w that is not empty is
\* in the candidate pool of w, and it is in the suggestions for w whenever
\* the pool holds at most max_suggestions candidates.
C18_OneEditWordsSuggested ==
    \A w \in EngineQueries :
        \A x \in word_set_ :
            OneEditAway(w, x) =>
                \A pool \in candidate_set(w) :
                    /\ x \in pool
                    /\ Cardinality(pool) <= max_suggestions_ =>
                          \A r \in rankCandidates(w, pool) : x \in Range(r)

\* C18 witness: with the lexicon {the, tea, ten} the suggestions for "teh"
\* hold all three words, and those for "hte" hold "the", which only the
\* swap of the first two characters yields.
C18_Witness ==
    /\ word_set_ = { <<116, 104, 101>>, <<116, 101, 97>>, <<116, 101, 110>> }
    /\ \A r \in generateSuggestions(<<116, 101, 104>>) : word_set_ \subseteq Range(r)
    /\ \A r \in generateSuggestions(<<104, 116, 101>>) : <<116, 104, 101>> \in Range(r)

\* The lexicon is {the:100, tea:5, ten:10}.
TheLexicon ==
    /\ word_set_ = { <<116, 104, 101>>, <<116, 101, 97>>, <<116, 101, 110>> }
    /\ getWordFrequency(<<116, 104, 101>>) = 100
    /\ getWordFrequency(<<116, 101, 97>>) = 5
    /\ getWordFrequency(<<116, 101, 110>>) = 10

\* C19: with the lexicon {the:100, tea:5, ten:10} and the default weights,
\* suggestions("teh") holds the three words and ranks "the" first.
C19_TheRankedFirst ==
    (TheLexicon /\ spell_checker_max_suggestions_ >= 3) =>
        \A r \in getSuggestions(<<116, 101, 104>>) :
            /\ Range(r) = word_set_
            /\ r[1] = <<116, 104, 101>>

\* The prefixes handed to getWordsWithPrefix under the facade: every prefix
\* of a query.
CheckerPrefixes ==
    UNION { { SubSeq(w, 1, k) : k \in 0..Len(w) } : w \in CheckerQueries }

\* The lexicon is {tea:5, ten:10, the:100, test:2}.
TestLexicon ==
    /\ word_set_ = { <<116, 101, 97>>, <<116, 101, 110>>, <<116, 104, 101>>,
                     <<116, 101, 115, 116>> }
    /\ getWordFrequency(<<116, 101, 97>>) = 5
    /\ getWordFrequency(<<116, 101, 110>>) = 10
    /\ getWordFrequency(<<116, 104, 101>>) = 100
    /\ getWordFrequency(<<116, 101, 115, 116>>) = 2

\* C20: words_with_prefix(p, max) returns at most max words, in an order in
\* which the frequency never increases; ("te", 5) on the lexicon
\* {tea:5, ten:10, the:100, test:2} gives [ten, tea, test].
C20_PrefixResultsCappedAndSorted ==
    /\ \A p \in CheckerPrefixes, max \in (0..MaxResults) \cup {5} :
          \A r \in getWordsWithPrefix(p, max) :
              /\ Len(r) <= max
              /\ \A i \in 1..(Len(r) - 1) :
                    getWordFrequency(r[i]) >= getWordFrequency(r[i + 1])
    /\ TestLexicon =>
          getWordsWithPrefix(<<116, 101>>, 5)
              = { << <<116, 101, 110>>, <<116, 101, 97>>, <<116, 101, 115, 116>> >> }

\* C20 witness: the lexicon is {tea:5, ten:10, the:100, test:2} and
\* words_with_prefix("te", 2) returns two of the three words under "te".
C20_Witness ==
    /\ TestLexicon
    /\ \A r \in getWordsWithPrefix(<<116, 101>>, 2) : Len(r) = 2
    /\ Cardinality(getWordsWithPrefix(<<116, 101>>, 5)) = 1

\* C21: the Levenshtein distance is a metric: the distance from a to b is
\* the distance from b to a, the distance from a word to itself is 0, and
\* the distance from a to c is at most the distance from a to b plus the
\* distance from b to c.
C21_LevenshteinIsMetric ==
    last.op = "calculateEditDistance" =>
        LET a == last.args[1]
            b == last.args[2]
        IN /\ last.ret = calculateEditDistance(b, a)
           /\ (a = b => last.ret = 0)
           /\ \A c \in DistanceWords :
                  calculateEditDistance(a, c)
                      <= last.ret + calculateEditDistance(b, c)

\* The distance from "abab" to "ba" was computed: 2, where the triangle
\* through "bab" is tight.
C21_Witness ==
    /\ last.op = "calculateEditDistance"
    /\ last.args = << <<97, 98, 97, 98>>, <<98, 97>> >>
    /\ last.ret = 2

\* The optimal-string-alignment distance between the first i characters of
\* a and the first j characters of b, by its recurrence: a deletion, an
\* insertion, a substitution and a swap of two adjacent characters cost 1
\* each.
RECURSIVE Alignment(_, _, _, _)
Alignment(a, b, i, j) ==
    IF i = 0 THEN j
    ELSE IF j = 0 THEN i
    ELSE LET edits == Min2(Alignment(a, b, i - 1, j) + 1,
                       Min2(Alignment(a, b, i, j - 1) + 1,
                            Alignment(a, b, i - 1, j - 1)
                                + (IF a[i] = b[j] THEN 0 ELSE 1)))
         IN IF i > 1 /\ j > 1 /\ a[i] = b[j - 1] /\ a[i - 1] = b[j]
            THEN Min2(edits, Alignment(a, b, i - 2, j - 2) + 1)
            ELSE edits

\* C28: the Damerau-Levenshtein helper returns the optimal-string-alignment
\* distance with unit costs, which is at most the Levenshtein distance and
\* is 1 when the second word is the first with two distinct adjacent
\* characters swapped.
C28_DamerauIsOptimalAlignment ==
    last.op = "calculateDamerauLevenshteinDistance" =>
        LET a == last.args[1]
            b == last.args[2]
        IN /\ last.ret = Alignment(a, b, Len(a), Len(b))
           /\ last.ret <= calculateEditDistance(a, b)
           /\ (IsSwap(a, b) /\ a # b => last.ret = 1)

\* The helper was applied to "aba" and "aab", one swap apart, where the
\* Levenshtein distance is 2.
C28_Witness ==
    /\ last.op = "calculateDamerauLevenshteinDistance"
    /\ last.args = << <<97, 98, 97>>, <<97, 97, 98>> >>
    /\ last.ret = 1
    /\ calculateEditDistance(last.args[1], last.args[2]) = 2

\* C22: in case-sensitive mode the checks fold no case: a word with an
\* uppercase letter whose lowercase form is in the lexicon, and which is not
\* in the lexicon as written, is not correct, and normalizeWord keeps the
\* case of every word.
C22_CaseSensitiveChecksFoldNoCase ==
    spell_checker_case_sensitive_ =>
        /\ (/\ last.op = "isCorrect"
            /\ ~shouldIgnoreWord(last.args[1])
            /\ last.args[1] # ToLower(last.args[1])
            /\ last.args[1] \notin word_set_
            /\ ToLower(last.args[1]) \in word_set_)
               => last.ret = FALSE
        /\ \A word \in TextWords : normalizeWord(word) = removePunctuation(word)

\* C23: checkFile reports a read error, with an empty result, exactly when
\* the file cannot be read; for a readable file, an empty one included, it
\* reports no error and returns the misspelled words of the contents.
C23_ReadErrorOnlyWhenUnreadable ==
    last.op = "checkFile" =>
        LET file == last.args[1]
        IN /\ last.ret.cerr <=> ~file.opens
           /\ ~file.opens => last.ret.ret = <<>>
           /\ file.opens =>
                 last.ret.ret = CheckLoop(extractWordsWithLines(file.contents), 1, <<>>)

\* The offsets from 0, each plus 1, of the newlines of text before offset p.
NewlinesBefore(text, p) == { k \in 1..p : text[k] = 10 }

\* The offset just after the last newline before offset p, 0 when there is
\* none.
LineStartBefore(text, p) ==
    IF NewlinesBefore(text, p) = {} THEN 0
    ELSE CHOOSE k \in NewlinesBefore(text, p) :
            \A m \in NewlinesBefore(text, p) : m <= k

\* The matches of the word pattern in text that are not ignored.
ReportedMatches(text) ==
    SelectSeq(WordMatches(text, 1, <<>>), LAMBDA m : ~shouldIgnoreWord(m.str))

\* C24: extractWordsWithLines reports each token at offset p with line 1 +
\* the number of newlines before p and column p - (the offset just after
\* the last newline before p, or 0) + 1.
C24_LineAndColumnOfTokens ==
    last.op = "extractWordsWithLines" =>
        LET text == last.args[1]
            tokens == ReportedMatches(text)
        IN /\ Len(last.ret) = Len(tokens)
           /\ \A k \in 1..Len(tokens) :
                  LET p == tokens[k].position
                  IN last.ret[k] =
                         << normalizeWord(tokens[k].str),
                            1 + Cardinality(NewlinesBefore(text, p)),
                            p - LineStartBefore(text, p) + 1 >>

\* "Hello, world!\nFoo bar." gave (hello, 1, 1), (world, 1, 8), (foo, 2, 1)
\* and (bar, 2, 5).
C24_Witness ==
    /\ last.op = "extractWordsWithLines"
    /\ last.args[1] = HelloWorldText
    /\ last.ret = << << <<104, 101, 108, 108, 111>>, 1, 1 >>,
                     << <<119, 111, 114, 108, 100>>, 1, 8 >>,
                     << <<102, 111, 111>>, 2, 1 >>,
                     << <<98, 97, 114>>, 2, 5 >> >>

\* The elements of a sequence.
Elements(seq) == { seq[k] : k \in 1..Len(seq) }

\* The elements of a sequence of extracted words that are not correct.
Misspelled(words) == { w \in Elements(words) : ~isCorrect(w[1]) }

\* C25: checkText and checkFile return the misspelled words in the order of
\* the text: the offsets, or the (line, column) pairs, increase strictly, and
\* the words returned are exactly the extracted words that are not correct.
C25_MisspellingsInTextualOrder ==
    /\ last.op = "checkText" =>
          /\ \A k \in 1..(Len(last.ret) - 1) : last.ret[k][2] < last.ret[k + 1][2]
          /\ Elements(last.ret) = Misspelled(extractWords(last.args[1]))
    /\ (last.op = "checkFile" /\ ~last.ret.cerr) =>
          /\ \A k \in 1..(Len(last.ret.ret) - 1) :
                 LET this == last.ret.ret[k]
                     next == last.ret.ret[k + 1]
                 IN \/ this[2] < next[2]
                    \/ this[2] = next[2] /\ this[3] < next[3]
          /\ Elements(last.ret.ret)
                 = Misspelled(extractWordsWithLines(last.args[1].contents))

\* With "hello" and "world" in the lexicon, checkText of "Hello,
\* world!\nFoo bar." returned (foo, 14) and (bar, 18).
C25_Witness ==
    /\ last.op = "checkText"
    /\ last.args[1] = HelloWorldText
    /\ last.ret = << << <<102, 111, 111>>, 14 >>, << <<98, 97, 114>>, 18 >> >>

\* C26: ranking is deterministic on ties: candidates of equal score keep
\* the order in which they entered the candidate set, so generateSuggestions
\* can return one vector only for a word and a lexicon, and that vector is
\* sorted by score descending.
C26_RankingDeterministicOnTies ==
    \A word \in QueryWords :
        /\ \A first \in generateSuggestions(word) :
              \A second \in generateSuggestions(word) : first = second
        /\ \A suggestions \in generateSuggestions(word) :
              \A k \in 1..(Len(suggestions) - 1) :
                  calculateSuggestionScore(word, suggestions[k])
                      >= calculateSuggestionScore(word, suggestions[k + 1])

\* a comes before b in lexicographic order, or is b.
RECURSIVE LexicographicLeq(_, _)
LexicographicLeq(a, b) ==
    IF a = <<>> THEN TRUE
    ELSE IF b = <<>> THEN FALSE
    ELSE IF Head(a) # Head(b) THEN Head(a) < Head(b)
    ELSE LexicographicLeq(Tail(a), Tail(b))

\* C27: in a vector returned by getWordsWithPrefix, words of equal frequency
\* are in lexicographic order.
C27_PrefixTiesLexicographic ==
    \A prefix \in QueryPrefixes :
        \A results \in getWordsWithPrefix(prefix, MaxResults) :
            \A i \in 1..Len(results) : \A j \in (i + 1)..Len(results) :
                getWordFrequency(results[i]) = getWordFrequency(results[j])
                    => LexicographicLeq(results[i], results[j])

\* Words handed to generateSuggestions that split into two words of the
\* eleven-word file: "abcac" ("abc" and "ac", "ab" and "cac" is no split),
\* "aab" ("a" and "ab") and "acab" ("ac" and "ab").
SplitQueries ==
    { <<97, 98, 99, 97, 99>>, <<97, 97, 98>>, <<97, 99, 97, 98>> }

\* C29: a split candidate, the two halves of the word joined by a space,
\* is in a vector generateSuggestions returns only when the lexicon holds
\* the joined string.
C29_SplitCandidatesOnlyFromLexicon ==
    \A word \in SplitQueries :
        \A suggestions \in generateSuggestions(word) :
            \A k \in 1..Len(suggestions) :
                suggestions[k] \in generateSplitCandidates(word)
                    => containsWord(suggestions[k])

\* C30: a load that returns false because the file does not open leaves
\* the lexicon as it was: the exact set, the frequency map, the phonetic
\* buckets, the trie, and with them size() and the stats.
C30_FailedOpenLeavesLexicon ==
    [][ (/\ last'.op \in {"loadFromFile", "loadDictionary"}
         /\ last'.ret = "false")
            => /\ UNCHANGED <<word_set_, word_frequencies_, phonetic_map_,
                              trie_root_, word_count_, memory_usage_>>
               /\ size' = size
               /\ getStats' = getStats ]_vars

\* A load of a file that does not open returned false on a lexicon that
\* holds words.
C30_Witness ==
    /\ last.op = "loadFromFile"
    /\ ~last.file.opens
    /\ last.ret = "false"
    /\ size > 0
    /\ last.old_size = size

=============================================================================
